---- MODULE Spec2Model ----
(***************************************************************************)
(* Verification model of DHBern/ceresa-manifest-mill.                      *)
(*                                                                         *)
(* .github/scripts/generate_manifests.py: paths are grouped into           *)
(* documents, every document resolves a service id per member, fetches     *)
(* <service id>/info.json on a thread pool, builds one canvas per member   *)
(* in sorted path order and serialises the manifest; main writes the       *)
(* files and the report.                                                   *)
(*                                                                         *)
(* Strings are sequences of tokens.  A token is an atomic piece of text;   *)
(* "/" is the separator, "http:" and "https:" are URL schemes and          *)
(* "info.json" is the capability document's file name, so the text         *)
(* "/info.json" is exactly the token pair <<"/", "info.json">>.  No token  *)
(* is a prefix of another one, hence comparing token sequences by          *)
(* CharOrder is Python's comparison of the strings they spell.             *)
(***************************************************************************)
EXTENDS Integers, Sequences, FiniteSets, TLC

VARIABLES
    input_exists,       \* os.path.exists(args.input_file)
    paths,              \* parse_all_manifests(args.input_file)
    cfg,                \* args: iiif_image_base, project_segment
    pc,                 \* position of the main thread
    exit_status,        \* process exit status, -1 while running
    grouped,            \* main: grouped (doc key -> list of paths)
    todo,               \* main: what is left of sorted(grouped.items()), (doc, items) pairs
    doc,                \* make_manifest_for_doc: doc
    items,              \* make_manifest_for_doc: items (sorted)
    idx,                \* index of the running for-loop (1-based)
    jobs,               \* make_manifest_for_doc: jobs, one entry per future
    results,            \* make_manifest_for_doc: results (path -> info, service id)
    failures,           \* make_manifest_for_doc: failures
    canvases_created,   \* make_manifest_for_doc: canvases_created
    manifest,           \* manifest.items of the iiifpapi3.Manifest
    ret,                \* value returned by make_manifest_for_doc
    files,              \* files written to the output directory
    created_manifests,  \* main: created_manifests
    report_lines,       \* main: report_lines
    total_failures,     \* main: total_failures
    report,             \* the report file, <<>> until it is written
    run,                \* number of the pipeline run in progress
    net,                \* mocked network: info.json URL -> outcome
    enc,                \* mocked serialiser: manifest -> json_dumps raises
    first,              \* the input kept for a second run, what the first run produced
    svc,                \* one call of build_service_id and its result
    manifest_urls,      \* iiif-to-transkribus main: manifest_urls
    tk_pc,              \* iiif-to-transkribus: position of the script
    tk_idx,             \* iiif-to-transkribus main: index of the loop over manifest_urls
    tk_results,         \* iiif-to-transkribus main: results
    result,             \* process_manifest: result
    tk_manifest,        \* process_manifest: manifest
    pages,              \* process_manifest: pages (label -> service id)
    images,             \* process_manifest: images (file name -> content)
    tk_k,               \* index of the running download or upload loop
    upload              \* the upload object on the Transkribus server

\* generate_manifests.py
genVars == <<input_exists, paths, cfg, pc, exit_status, grouped, todo, doc, items,
             idx, jobs, results, failures, canvases_created, manifest, ret, files,
             created_manifests, report_lines, total_failures, report, run, net,
             enc, first, svc>>

\* iiif-to-transkribus.py
tkVars == <<manifest_urls, tk_pc, tk_idx, tk_results, result, tk_manifest,
            pages, images, tk_k, upload>>

vars == <<genVars, tkVars>>

----------------------------------------------------------------------------
(* Bounds of the model.                                                    *)

MaxPaths == 3           \* lines of the input file
MaxTail == 5            \* tokens after the scheme in an argument of build_service_id
MaxDup == 9             \* member items of the document that fills the pool
MaxManifests == 2       \* manifest URLs of the issue
MaxCanvases == 2        \* items of a fetched manifest

----------------------------------------------------------------------------
(* Text.                                                                   *)

\* The tokens in code point order of their first character.
CharOrder == <<"/", "A", "B", "a", "b", "http:", "https:", "info.json", "root">>

Rank(t) == CHOOSE k \in 1..Len(CharOrder) : CharOrder[k] = t

\* s < t for Python strings.
RECURSIVE StrLess(_, _)
StrLess(s, t) ==
    IF t = <<>> THEN FALSE
    ELSE IF s = <<>> THEN TRUE
    ELSE IF Head(s) # Head(t) THEN Rank(Head(s)) < Rank(Head(t))
    ELSE StrLess(Tail(s), Tail(t))

StrLeq(s, t) == s = t \/ StrLess(s, t)

\* s.startswith(pre)
StartsWith(s, pre) ==
    Len(s) >= Len(pre) /\ SubSeq(s, 1, Len(pre)) = pre

\* s.rstrip('/'): every trailing separator goes.
RECURSIVE RStripSlash(_)
RStripSlash(s) ==
    IF s # <<>> /\ s[Len(s)] = "/" THEN RStripSlash(SubSeq(s, 1, Len(s) - 1))
    ELSE s

\* s.strip('/')
RECURSIVE LStripSlash(_)
LStripSlash(s) ==
    IF s # <<>> /\ Head(s) = "/" THEN LStripSlash(Tail(s)) ELSE s

StripSlash(s) == LStripSlash(RStripSlash(s))

\* s.replace('/info.json', ''): every occurrence goes, scanning left to right.
RECURSIVE RemoveInfoJson(_)
RemoveInfoJson(s) ==
    IF s = <<>> THEN <<>>
    ELSE IF StartsWith(s, <<"/", "info.json">>) THEN RemoveInfoJson(SubSeq(s, 3, Len(s)))
    ELSE <<Head(s)>> \o RemoveInfoJson(Tail(s))

\* s.split('/')
RECURSIVE Split(_)
Split(s) ==
    IF \A k \in 1..Len(s) : s[k] # "/" THEN <<s>>
    ELSE LET k == CHOOSE n \in 1..Len(s) : s[n] = "/" /\ \A m \in 1..(n - 1) : s[m] # "/"
         IN  <<SubSeq(s, 1, k - 1)>> \o Split(SubSeq(s, k + 1, Len(s)))

\* os.path.basename(s)
Basename(s) == LET parts == Split(s) IN parts[Len(parts)]

\* sorted(seq) for a list of strings (insertion sort; ties are equal strings)
RECURSIVE Insert(_, _)
Insert(sorted, s) ==
    IF sorted = <<>> THEN <<s>>
    ELSE IF StrLess(s, Head(sorted)) THEN <<s>> \o sorted
    ELSE <<Head(sorted)>> \o Insert(Tail(sorted), s)

RECURSIVE Sorted(_)
Sorted(seq) ==
    IF seq = <<>> THEN <<>> ELSE Insert(Sorted(SubSeq(seq, 1, Len(seq) - 1)), seq[Len(seq)])

----------------------------------------------------------------------------
(* generate_manifests.py, the pure functions.                              *)

MAX_WORKERS == 8

\* doc_and_filename_from_path(p)[0]
RootDoc == <<"root">>

\* The key taken from the first segment instead of the second-to-last.
doc_from_first_segment(p) ==
    LET parts == Split(p)
    IN  IF Len(parts) = 1 THEN <<RootDoc, parts[Len(parts)]>>
        ELSE <<parts[1], parts[Len(parts)]>>

doc_and_filename_from_path(p) ==
    LET parts == Split(p)
    IN  IF Len(parts) = 1 THEN <<RootDoc, parts[Len(parts)]>>
        ELSE <<parts[Len(parts) - 1], parts[Len(parts)]>>

IsUrl(path) ==
    \/ StartsWith(path, <<"http:", "/", "/">>)
    \/ StartsWith(path, <<"https:", "/", "/">>)

\* The ValueError of build_service_id.
NoBase == <<"ValueError">>

\* build_service_id without the check of the base URL at line 65.
build_service_id_unchecked(iiif_base, project_segment, path) ==
    IF IsUrl(path) THEN RemoveInfoJson(RStripSlash(path))
    ELSE LET filename == Basename(path)
             base == RStripSlash(iiif_base)
             seg == StripSlash(project_segment)
             service == IF seg # <<>> THEN base \o <<"/">> \o seg \o <<"/">> \o filename
                        ELSE base \o <<"/">> \o filename
         IN  RStripSlash(service)

build_service_id(iiif_base, project_segment, path) ==
    IF IsUrl(path) THEN RemoveInfoJson(RStripSlash(path))
    ELSE IF iiif_base = <<>> THEN NoBase
    ELSE LET filename == Basename(path)
             base == RStripSlash(iiif_base)
             seg == StripSlash(project_segment)
             service == IF seg # <<>> THEN base \o <<"/">> \o seg \o <<"/">> \o filename
                        ELSE base \o <<"/">> \o filename
         IN  RStripSlash(service)

----------------------------------------------------------------------------
(* The image service and fetch_info_json.                                  *)

NoValue == "<none>"

\* What session.get, raise_for_status and r.json() do for one request:
\* they raise (transport error, non-2xx status, unparseable body) with some
\* str(e), or r.json() returns the parsed body.  A body is a JSON object or
\* another JSON value (list, string, null); an object may carry an "error"
\* member, and its shape may make a builder call on the canvas raise.
Body(json, error, buildable) ==
    [json |-> json, error |-> error, buildable |-> buildable, info_url |-> <<>>]

NoInfo == Body("none", NoValue, FALSE)

Raised(msg) == [raised |-> TRUE, msg |-> msg, body |-> NoInfo]
Parsed(body) == [raised |-> FALSE, msg |-> NoValue, body |-> body]

OkBody == Body("object", NoValue, TRUE)
ErrorMemberBody == Body("object", "E", TRUE)
BadShapeBody == Body("object", NoValue, FALSE)
NotObjectBody == Body("other", NoValue, TRUE)

Outcomes ==
    {Raised("E"), Raised("")} \cup
    {Parsed(b) : b \in {OkBody, ErrorMemberBody, BadShapeBody, NotObjectBody}}

InfoUrl(service_id) == RStripSlash(service_id) \o <<"/", "info.json">>

\* fetch_info_json(service_id, session) when the request ends as `outcome`.
fetch_info_json(service_id, outcome) ==
    IF outcome.raised
    THEN [json |-> "object", error |-> outcome.msg, buildable |-> TRUE,
          info_url |-> InfoUrl(service_id)]
    ELSE outcome.body

\* Python truth value of info.get('error')
Truthy(v) == v # NoValue /\ v # ""

\* isinstance(info, dict) and info.get('error')
IsFailureMarker(info) == info.json = "object" /\ Truthy(info.error)

\* min(MAX_WORKERS, max(2, len(items)))
Max(a, b) == IF a >= b THEN a ELSE b
Min(a, b) == IF a <= b THEN a ELSE b
\* max(2, len(items)), without the cap.
PoolSizeUncapped(n) == Max(2, n)

PoolSize(n) == Min(MAX_WORKERS, Max(2, n))

----------------------------------------------------------------------------
(* Inputs.                                                                 *)

PathPool ==
    { <<"A", "/", "a">>, <<"a">>, <<"http:", "/", "/", "A", "/", "b">> }

InputLists == UNION { [1..n -> PathPool] : n \in 0..MaxPaths }

Configs ==
    { [iiif_image_base |-> b, project_segment |-> <<"b">>] :
        b \in { <<>>, <<"http:", "/", "/", "B", "/">> } }

Schemes == { <<>>, <<"http:", "/", "/">>, <<"https:", "/", "/">> }
TailTokens == {"/", "info.json", "a"}
Tails == UNION { [1..n -> TailTokens] : n \in 0..MaxTail }
NoOut == <<"<none>">>
ResolveArgs ==
    { [path |-> s \o t, iiif_base |-> b, project_segment |-> g, out |-> NoOut] :
        s \in Schemes, t \in Tails \ {<<>>},
        b \in { <<>>, <<"http:", "/", "/", "B", "/">> },
        g \in { <<>>, <<"/", "b", "/">> } }

SvcIdle == [path |-> <<>>, iiif_base |-> <<>>, project_segment |-> <<>>, out |-> NoOut]

EmptyMap == [x \in {} |-> NoValue]

Put(map, k, v) == [x \in DOMAIN map \cup {k} |-> IF x = k THEN v ELSE map[x]]

\* Python's None is the empty sequence, any other value x is <<x>>.
None == <<>>
Some(x) == <<x>>

NoDoc == <<"<none>">>
NoRet == [manifest_json |-> None, created_count |-> 0, failures |-> <<>>]

NoFirst == [ran |-> FALSE, input |-> <<>>]

NoManifest == [fetched |-> FALSE, object |-> FALSE, items |-> <<>>]
NoUpload == [created |-> FALSE, pageList |-> <<>>, files |-> <<>>]
NoResult == [manifest_url |-> <<>>, status |-> "UNKNOWN", upload_obj |-> None, error |-> None]

\* iiif-to-transkribus.py has not been started.
TkLocals ==
    /\ tk_idx = 1
    /\ tk_results = <<>>
    /\ result = NoResult
    /\ tk_manifest = NoManifest
    /\ pages = EmptyMap
    /\ images = EmptyMap
    /\ tk_k = 0
    /\ upload = NoUpload

TkIdle ==
    /\ manifest_urls = <<>>
    /\ tk_pc = "off"
    /\ TkLocals

----------------------------------------------------------------------------
(* State after construction.                                               *)

InitLocals ==
    /\ pc = "start"
    /\ exit_status = -1
    /\ grouped = EmptyMap
    /\ todo = <<>>
    /\ doc = NoDoc
    /\ items = <<>>
    /\ idx = 0
    /\ jobs = <<>>
    /\ results = EmptyMap
    /\ failures = <<>>
    /\ canvases_created = 0
    /\ manifest = <<>>
    /\ ret = NoRet
    /\ files = EmptyMap
    /\ created_manifests = <<>>
    /\ report_lines = <<>>
    /\ total_failures = <<>>
    /\ report = <<>>

Init ==
    /\ input_exists \in BOOLEAN
    /\ paths \in (IF input_exists THEN InputLists ELSE {<<>>})
    /\ cfg \in Configs
    /\ InitLocals
    /\ TkIdle
    /\ run = 1
    /\ net = EmptyMap
    /\ enc = EmptyMap
    /\ first = NoFirst
    /\ svc = SvcIdle

----------------------------------------------------------------------------
(* main, up to the loop over the documents.                                *)

\* main, lines 208-213: a missing input file ends the run with status 2.
CheckInput ==
    /\ pc = "start"
    /\ IF input_exists
       THEN /\ pc' = "group"
            /\ idx' = 1
            /\ UNCHANGED exit_status
       ELSE /\ pc' = "exited"
            /\ exit_status' = 2
            /\ UNCHANGED idx
    /\ UNCHANGED <<input_exists, paths, cfg, grouped, todo, doc, items, jobs,
                   results, failures, canvases_created, manifest, ret, files,
                   created_manifests, report_lines, total_failures, report,
                   run, net, enc, first, svc, tkVars>>

\* grouped[doc].append(p) on a defaultdict(list)
GroupAppend(g, d, p) ==
    Put(g, d, IF d \in DOMAIN g THEN Append(g[d], p) ELSE <<p>>)

\* main, lines 216-218: one iteration of the grouping loop.
GroupPath ==
    /\ pc = "group"
    /\ idx <= Len(paths)
    /\ grouped' = GroupAppend(grouped, doc_and_filename_from_path(paths[idx])[1], paths[idx])
    /\ idx' = idx + 1
    /\ UNCHANGED <<input_exists, paths, cfg, pc, exit_status, todo, doc, items,
                   jobs, results, failures, canvases_created, manifest, ret,
                   files, created_manifests, report_lines, total_failures,
                   report, run, net, enc, first, svc, tkVars>>

\* The (doc, items) pairs with the greatest key first.
RECURSIVE UnsortedItems(_)
UnsortedItems(g) ==
    IF DOMAIN g = {} THEN <<>>
    ELSE LET k == CHOOSE x \in DOMAIN g : \A y \in DOMAIN g : StrLeq(y, x)
         IN  <<<<k, g[k]>>>> \o UnsortedItems([x \in DOMAIN g \ {k} |-> g[x]])

\* sorted(grouped.items()): the (doc, items) pairs in the order of their keys.
RECURSIVE SortedItems(_)
SortedItems(g) ==
    IF DOMAIN g = {} THEN <<>>
    ELSE LET k == CHOOSE x \in DOMAIN g : \A y \in DOMAIN g : StrLeq(x, y)
         IN  <<<<k, g[k]>>>> \o SortedItems([x \in DOMAIN g \ {k} |-> g[x]])

\* main, lines 220-229: the grouping loop is over, the documents are taken
\* in sorted key order.  Neither paths nor grouped is read again, the
\* model forgets them here.
GroupDone ==
    /\ pc = "group"
    /\ idx > Len(paths)
    /\ todo' = SortedItems(grouped)
    /\ pc' = "next_doc"
    /\ paths' = <<>>
    /\ grouped' = EmptyMap
    /\ UNCHANGED <<input_exists, cfg, exit_status, doc, items,
                   idx, jobs, results, failures, canvases_created, manifest,
                   ret, files, created_manifests, report_lines, total_failures,
                   report, run, net, enc, first, svc, tkVars>>

----------------------------------------------------------------------------
(* make_manifest_for_doc.                                                  *)

inputVars == <<input_exists, paths, cfg>>
mainVars == <<files, created_manifests, report_lines, total_failures, report>>
mockVars == <<run, net, enc, first>>

\* main, lines 229-231, and make_manifest_for_doc, lines 97-116: the next
\* document is entered, its items are sorted, the manifest is empty.
EnterDoc ==
    /\ pc = "next_doc"
    /\ todo # <<>>
    /\ doc' = Head(todo)[1]
    /\ items' = Sorted(Head(todo)[2])
    /\ failures' = <<>>
    /\ canvases_created' = 0
    /\ manifest' = <<>>
    /\ jobs' = <<>>
    /\ results' = EmptyMap
    /\ ret' = NoRet
    /\ idx' = 1
    /\ pc' = "submit"
    /\ UNCHANGED <<inputVars, mainVars, mockVars, exit_status, grouped, todo, svc, tkVars>>

\* pool.submit(fetch_info_json, service_id), line 123: the call waits for a
\* worker; gets counts the session.get calls made for it (line 79).
Job(p, service_id) ==
    [p |-> p, service_id |-> service_id, state |-> "queued", gets |-> 0,
     info |-> NoInfo]

\* make_manifest_for_doc, lines 118-124: one iteration of the submit loop.
Submit ==
    /\ pc = "submit"
    /\ idx <= Len(items)
    /\ LET p == items[idx]
           service_id == build_service_id(cfg.iiif_image_base, cfg.project_segment, p)
       IN  IF service_id = NoBase
           THEN /\ failures' = Append(failures, <<p, "service id build failed">>)
                /\ UNCHANGED jobs
           ELSE /\ jobs' = Append(jobs, Job(p, service_id))
                /\ UNCHANGED failures
    /\ idx' = idx + 1
    /\ pc' = IF idx = Len(items) THEN "collect" ELSE "submit"
    /\ UNCHANGED <<inputVars, mainVars, mockVars, exit_status, grouped, todo,
                   doc, items, results, canvases_created, manifest, ret, svc, tkVars>>

InState(st) == { j \in 1..Len(jobs) : jobs[j].state = st }

\* ThreadPoolExecutor, line 117: an idle worker of the pool takes the oldest
\* queued call.
WorkerStart ==
    /\ pc \in {"submit", "collect"}
    /\ InState("queued") # {}
    /\ Cardinality(InState("running")) < PoolSize(Len(items))
    /\ LET j == CHOOSE k \in InState("queued") : \A m \in InState("queued") : k <= m
       IN  jobs' = [jobs EXCEPT ![j].state = "running", ![j].gets = @ + 1]
    /\ UNCHANGED <<inputVars, mainVars, mockVars, pc, exit_status, grouped,
                   todo, doc, items, idx, results, failures, canvases_created,
                   manifest, ret, svc, tkVars>>

\* A call whose request has ended is queued again, once.
RequestRetried(job) ==
    [job EXCEPT !.state = IF job.gets < 2 THEN "queued" ELSE "done"]

\* fetch_info_json, lines 78-84: one session.get, and the call returns
\* whatever the request did.
RequestOnce(job) == [job EXCEPT !.state = "done"]

\* fetch_info_json, lines 76-84, run by a worker: the request of job j has
\* ended.  Nothing reads what it returned before fut.result() at line 130,
\* so the model settles the outcome there.
WorkerFinish ==
    /\ pc \in {"submit", "collect"}
    /\ \E j \in InState("running") :
        jobs' = [jobs EXCEPT ![j] = RequestOnce(jobs[j])]
    /\ UNCHANGED <<inputVars, mainVars, mockVars, pc, exit_status, grouped,
                   todo, doc, items, idx, results, failures, canvases_created,
                   manifest, ret, svc, tkVars>>

\* The k-th result to arrive stored under the k-th path.
StoreByArrival(res, p, info, service_id) ==
    Put(res, items[Cardinality(DOMAIN res) + 1], <<info, service_id>>)

\* results[p] = (info, service_id)
StoreResult(res, p, info, service_id) == Put(res, p, <<info, service_id>>)

\* make_manifest_for_doc, lines 128-131: as_completed yields the finished
\* future j, whose request ended as `outcome`; fut.result() is what
\* fetch_info_json returned, and it is stored under the job's path.
CollectAs(j, outcome) ==
    /\ pc = "collect"
    /\ j \in InState("done")
    /\ LET info == fetch_info_json(jobs[j].service_id, outcome)
       IN  /\ results' = StoreResult(results, jobs[j].p, info, jobs[j].service_id)
           /\ jobs' = [jobs EXCEPT ![j].state = "collected", ![j].info = info]
    /\ UNCHANGED <<inputVars, mainVars, pc, exit_status, grouped, todo, doc,
                   items, idx, failures, canvases_created, manifest, ret, svc, tkVars>>

\* The image service answers as it likes.
Collect ==
    \E j \in 1..Len(jobs), outcome \in Outcomes :
        /\ CollectAs(j, outcome)
        /\ UNCHANGED mockVars

\* The collection loop left as soon as no finished future is waiting.
CollectDoneEarly ==
    /\ pc = "collect"
    /\ InState("done") = {}
    /\ pc' = "build"
    /\ idx' = 1
    /\ UNCHANGED <<inputVars, mainVars, mockVars, exit_status, grouped, todo,
                   doc, items, jobs, results, failures, canvases_created,
                   manifest, ret, svc, tkVars>>

\* make_manifest_for_doc, lines 128-133: as_completed is exhausted and the
\* executor is shut down.
CollectDone ==
    /\ pc = "collect"
    /\ InState("collected") = 1..Len(jobs)
    /\ pc' = "build"
    /\ idx' = 1
    /\ UNCHANGED <<inputVars, mainVars, mockVars, exit_status, grouped, todo,
                   doc, items, jobs, results, failures, canvases_created,
                   manifest, ret, svc, tkVars>>

\* The canvas that lines 148-150 add to manifest.items; the calls that
\* follow complete it unless one of them raises.
Canvas(n, p, service_id, complete) ==
    [index |-> n, path |-> p, label |-> Basename(p), service |-> service_id,
     complete |-> complete]

\* The build loop's body with a handler that does not take the count back.
BuildStepNoRollback(acc, p, res) ==
    IF p \notin DOMAIN res THEN acc
    ELSE LET info == res[p][1]
             service_id == res[p][2]
         IN  IF IsFailureMarker(info)
             THEN [acc EXCEPT !.failures = Append(@, <<p, "info.json fetch failed">>)]
             ELSE IF info.json # "object"
             THEN [acc EXCEPT !.raised = TRUE]
             ELSE IF info.buildable
             THEN [acc EXCEPT
                     !.manifest = Append(@, Canvas(acc.canvases_created + 1, p, service_id, TRUE)),
                     !.canvases_created = @ + 1]
             ELSE [acc EXCEPT
                     !.manifest = Append(@, Canvas(acc.canvases_created + 1, p, service_id, FALSE)),
                     !.canvases_created = @ + 1,
                     !.failures = Append(@, <<p, "manifest/canvas creation error">>)]

\* make_manifest_for_doc, lines 135-190: the body of the build loop for
\* path p, on the function's failures, canvases_created and manifest.items.
\* A result that is not a dict makes info.get raise at line 144, outside
\* the try.  Inside the try the canvas is added to manifest.items and given
\* its id first (lines 148-150); when a later call raises, the handler
\* records the failure and takes the count back.
BuildStep(acc, p, res) ==
    IF p \notin DOMAIN res THEN acc
    ELSE LET info == res[p][1]
             service_id == res[p][2]
         IN  IF IsFailureMarker(info)
             THEN [acc EXCEPT !.failures = Append(@, <<p, "info.json fetch failed">>)]
             ELSE IF info.json # "object"
             THEN [acc EXCEPT !.raised = TRUE]
             ELSE IF info.buildable
             THEN [acc EXCEPT
                     !.manifest = Append(@, Canvas(acc.canvases_created + 1, p, service_id, TRUE)),
                     !.canvases_created = @ + 1]
             ELSE [acc EXCEPT
                     !.manifest = Append(@, Canvas(acc.canvases_created + 1, p, service_id, FALSE)),
                     !.failures = Append(@, <<p, "manifest/canvas creation error">>)]

\* make_manifest_for_doc, lines 134-190: one iteration of the build loop.
\* An exception that leaves make_manifest_for_doc leaves main as well:
\* the process ends with a traceback and status 1.
Build ==
    /\ pc = "build"
    /\ idx <= Len(items)
    /\ LET acc == BuildStep([failures |-> failures, canvases_created |-> canvases_created,
                             manifest |-> manifest, raised |-> FALSE],
                            items[idx], results)
       IN  /\ failures' = acc.failures
           /\ canvases_created' = acc.canvases_created
           /\ manifest' = acc.manifest
           /\ IF acc.raised
              THEN /\ pc' = "exited"
                   /\ exit_status' = 1
              ELSE /\ pc' = IF idx = Len(items) THEN "dumps" ELSE "build"
                   /\ UNCHANGED exit_status
    /\ idx' = idx + 1
    /\ UNCHANGED <<inputVars, mainVars, mockVars, grouped, todo, doc, items,
                   jobs, results, ret, svc, tkVars>>

\* What json_dumps is given: the manifest's label and its items.
ManifestContent == [label |-> doc, items |-> manifest]

\* The except branch returning the failures as they are.
DumpsReturnNoRecord(raises, content, count, fails) ==
    IF raises
    THEN [manifest_json |-> None, created_count |-> count, failures |-> fails]
    ELSE [manifest_json |-> Some(content), created_count |-> count, failures |-> fails]

\* make_manifest_for_doc, lines 192-196.
DumpsReturn(raises, content, count, fails) ==
    IF raises
    THEN [manifest_json |-> None, created_count |-> count,
          failures |-> fails \o << <<<<"manifest_dumps">>, "json_dumps failed">> >>]
    ELSE [manifest_json |-> Some(content), created_count |-> count, failures |-> fails]

SerializeAs(raises) ==
    /\ pc = "dumps"
    /\ ret' = DumpsReturn(raises, ManifestContent, canvases_created, failures)
    /\ pc' = "write"
    /\ UNCHANGED <<inputVars, mainVars, exit_status, grouped, todo, doc, items,
                   idx, jobs, results, failures, canvases_created, manifest, svc, tkVars>>

\* json_dumps is the builder library's: it returns or it raises.
Serialize ==
    \E raises \in BOOLEAN :
        /\ SerializeAs(raises)
        /\ UNCHANGED mockVars

\* main, lines 239-248: the file is written when there is a manifest, the
\* document's failures join the run's.
WriteDoc ==
    /\ pc = "write"
    /\ IF ret.manifest_json # None
       THEN /\ files' = Put(files, doc, ret.manifest_json[1])
            /\ created_manifests' = Append(created_manifests, <<doc, ret.created_count>>)
            /\ report_lines' = Append(report_lines, <<doc, "created">>)
       ELSE /\ report_lines' = Append(report_lines, <<doc, "FAILED">>)
            /\ UNCHANGED <<files, created_manifests>>
    /\ total_failures' = total_failures \o
            [k \in 1..Len(ret.failures) |-> <<doc, ret.failures[k][1], ret.failures[k][2]>>]
    /\ todo' = Tail(todo)
    /\ pc' = "next_doc"
    /\ UNCHANGED <<inputVars, mockVars, exit_status, grouped, doc, items, idx,
                   jobs, results, failures, canvases_created, manifest, ret,
                   report, svc, tkVars>>

\* main, lines 250-269: the report is written and the run ends.
WriteReport ==
    /\ pc = "next_doc"
    /\ todo = <<>>
    /\ report' = <<[created |-> created_manifests, failures |-> total_failures]>>
    /\ pc' = "done"
    /\ exit_status' = 0
    /\ UNCHANGED <<inputVars, mockVars, grouped, todo, doc, items, idx, jobs,
                   results, failures, canvases_created, manifest, ret, files,
                   created_manifests, report_lines, total_failures, svc, tkVars>>

Next ==
    \/ CheckInput
    \/ GroupPath
    \/ GroupDone
    \/ EnterDoc
    \/ Submit
    \/ WorkerStart
    \/ WorkerFinish
    \/ Collect
    \/ CollectDone
    \/ Build
    \/ Serialize
    \/ WriteDoc
    \/ WriteReport

Spec == Init /\ [][Next]_vars

----------------------------------------------------------------------------
(* Two runs of the pipeline on the same input file, with the same          *)
(* configuration, against a mocked image service that answers every        *)
(* info.json URL the same way each time, and a builder library that        *)
(* serialises the same manifest the same way each time.                    *)

InitTwice ==
    /\ input_exists \in BOOLEAN
    /\ paths \in (IF input_exists THEN InputLists ELSE {<<>>})
    /\ cfg \in Configs
    /\ InitLocals
    /\ TkIdle
    /\ run = 1
    /\ net = EmptyMap
    /\ enc = EmptyMap
    /\ first = [ran |-> FALSE, input |-> paths]
    /\ svc = SvcIdle

\* fut.result() against the mocked service: the first request of a URL
\* fixes its response.
CollectMocked ==
    \E j \in 1..Len(jobs) :
        LET url == InfoUrl(jobs[j].service_id)
        IN  IF url \in DOMAIN net
            THEN /\ CollectAs(j, net[url])
                 /\ UNCHANGED mockVars
            ELSE \E outcome \in Outcomes :
                    /\ CollectAs(j, outcome)
                    /\ net' = Put(net, url, outcome)
                    /\ UNCHANGED <<run, enc, first>>

\* json_dumps as a function of the manifest it is given.
SerializeMocked ==
    IF ManifestContent \in DOMAIN enc
    THEN /\ SerializeAs(enc[ManifestContent])
         /\ UNCHANGED mockVars
    ELSE \E raises \in BOOLEAN :
            /\ SerializeAs(raises)
            /\ enc' = Put(enc, ManifestContent, raises)
            /\ UNCHANGED <<run, net, first>>

\* What a run leaves behind.
Outputs ==
    [files |-> files, created_manifests |-> created_manifests,
     total_failures |-> total_failures, report |-> report,
     exit_status |-> exit_status]

\* The first run has ended; the second starts from the same input file and
\* writes to an output directory of its own.
Rerun ==
    /\ run = 1
    /\ pc \in {"done", "exited"}
    /\ first' = [ran |-> TRUE, input |-> first.input, out |-> Outputs]
    /\ run' = 2
    /\ paths' = first.input
    /\ pc' = "start"
    /\ exit_status' = -1
    /\ grouped' = EmptyMap
    /\ todo' = <<>>
    /\ doc' = NoDoc
    /\ items' = <<>>
    /\ idx' = 0
    /\ jobs' = <<>>
    /\ results' = EmptyMap
    /\ failures' = <<>>
    /\ canvases_created' = 0
    /\ manifest' = <<>>
    /\ ret' = NoRet
    /\ files' = EmptyMap
    /\ created_manifests' = <<>>
    /\ report_lines' = <<>>
    /\ total_failures' = <<>>
    /\ report' = <<>>
    /\ UNCHANGED <<input_exists, cfg, net, enc, svc, tkVars>>

NextTwice ==
    \/ CheckInput
    \/ GroupPath
    \/ GroupDone
    \/ EnterDoc
    \/ Submit
    \/ WorkerStart
    \/ WorkerFinish
    \/ CollectMocked
    \/ CollectDone
    \/ Build
    \/ SerializeMocked
    \/ WriteDoc
    \/ WriteReport
    \/ Rerun

SpecTwice == InitTwice /\ [][NextTwice]_vars

----------------------------------------------------------------------------
(* build_service_id on its own, over every short argument.                 *)

InitResolve ==
    /\ input_exists = FALSE
    /\ paths = <<>>
    /\ cfg \in { c \in Configs : c.iiif_image_base = <<>> }
    /\ InitLocals
    /\ TkIdle
    /\ run = 1
    /\ net = EmptyMap
    /\ enc = EmptyMap
    /\ first = NoFirst
    /\ svc \in ResolveArgs

Resolve ==
    /\ svc.out = NoOut
    /\ svc' = [svc EXCEPT !.out = build_service_id(svc.iiif_base, svc.project_segment, svc.path)]
    /\ UNCHANGED <<inputVars, mainVars, mockVars, pc, exit_status, grouped,
                   todo, doc, items, idx, jobs, results, failures,
                   canvases_created, manifest, ret, tkVars>>

NextResolve == Resolve

SpecResolve == InitResolve /\ [][NextResolve]_vars

----------------------------------------------------------------------------
(* One document with more member items than the pool has workers: the      *)
(* input file is the same line once or many times, against the mocked      *)
(* service.  A runnable worker thread gets the processor in the end, and    *)
(* session.get ends, by its timeout at the latest (line 79).               *)

PoolInputs == { [k \in 1..n |-> <<"a">>] : n \in {1, MaxDup} }

\* The mocked service knows the one URL of these runs: it answers with a
\* capability document or the request fails.
PoolNets(c) ==
    { Put(EmptyMap,
          InfoUrl(build_service_id(c.iiif_image_base, c.project_segment, <<"a">>)),
          outcome) : outcome \in {Parsed(OkBody), Raised("E")} }

InitPool ==
    /\ input_exists = TRUE
    /\ paths \in PoolInputs
    /\ cfg \in { c \in Configs : c.iiif_image_base # <<>> }
    /\ InitLocals
    /\ TkIdle
    /\ run = 1
    /\ net \in PoolNets(cfg)
    /\ enc = EmptyMap
    /\ first = NoFirst
    /\ svc = SvcIdle

NextPool ==
    \/ CheckInput
    \/ GroupPath
    \/ GroupDone
    \/ EnterDoc
    \/ Submit
    \/ WorkerStart
    \/ WorkerFinish
    \/ CollectMocked
    \/ CollectDone
    \/ Build
    \/ SerializeMocked
    \/ WriteDoc
    \/ WriteReport

SpecPool ==
    /\ InitPool
    /\ [][NextPool]_vars
    /\ WF_vars(WorkerStart)
    /\ WF_vars(WorkerFinish)

----------------------------------------------------------------------------
(* iiif-to-transkribus.py: main's loop over the manifest URLs and          *)
(* process_manifest, after the issue was read and the session              *)
(* authenticated.  A label is a string, a file name is the label followed   *)
(* by ".jpg", the content of an image is the URL it was read from.         *)

\* s.removesuffix(suf)
RemoveSuffix(s, suf) ==
    IF Len(s) >= Len(suf) /\ SubSeq(s, Len(s) - Len(suf) + 1, Len(s)) = suf
    THEN SubSeq(s, 1, Len(s) - Len(suf))
    ELSE s

\* sorted(d.keys()) for string keys
RECURSIVE SortedKeys(_)
SortedKeys(keys) ==
    IF keys = {} THEN <<>>
    ELSE LET k == CHOOSE x \in keys : \A y \in keys : StrLeq(x, y)
         IN  <<k>> \o SortedKeys(keys \ {k})

\* The issue lists one to MaxManifests manifest URLs, two URLs in turn.
UrlAt(k) ==
    IF k % 2 = 1 THEN <<"http:", "/", "/", "A", "/", "a">>
    ELSE <<"http:", "/", "/", "A", "/", "b">>

UrlLists == { [k \in 1..n |-> UrlAt(k)] : n \in 1..MaxManifests }

\* An item of a manifest: its label, None when item['label']['en'][0] is
\* not there, and the id of its image body.
CanvasPool ==
    { [label |-> Some(<<"a">>), id |-> <<"http:", "/", "/", "B", "/", "a">>],
      [label |-> Some(<<"a">>), id |-> <<"http:", "/", "/", "B", "/", "b">>],
      [label |-> Some(<<"b">>), id |-> <<"http:", "/", "/", "B", "/", "b", "/", "info.json">>],
      [label |-> None, id |-> <<"http:", "/", "/", "B", "/", "a">>] }

\* What r.json() can be: an object with items, or a JSON value that is no
\* object.
Manifests ==
    { [fetched |-> TRUE, object |-> TRUE, items |-> its] :
        its \in UNION { [1..n -> CanvasPool] : n \in 0..MaxCanvases } }
    \cup { [fetched |-> TRUE, object |-> FALSE, items |-> <<>>] }

\* extract_pages, lines 83-95: pages[label] = service_id for every item
\* that has both, a later item with the same label replaces the earlier.
RECURSIVE extract_pages(_)
extract_pages(its) ==
    IF its = <<>> THEN EmptyMap
    ELSE LET before == extract_pages(SubSeq(its, 1, Len(its) - 1))
             item == its[Len(its)]
         IN  IF item.label = None THEN before
             ELSE Put(before, item.label[1], item.id)

\* download_images, lines 102-103
ImageUrl(service_id) ==
    RemoveSuffix(RStripSlash(service_id), <<"/", "info.json">>)
        \o <<"/", "full/max/0/default.jpg">>

FileName(label) == label \o <<".jpg">>

\* process_manifest, lines 164-167
pages_metadata(imgs) ==
    LET names == SortedKeys(DOMAIN imgs)
    IN  [k \in 1..Len(names) |-> [fileName |-> names[k], pageNr |-> k]]

\* The handler keeping error at None.
FailedNoError(r, msg) == [r EXCEPT !.status = "FAILED"]

\* process_manifest, lines 198-201: the handler of the try.
Failed(r, msg) == [r EXCEPT !.status = "FAILED", !.error = Some(msg)]

InitTranskribus ==
    /\ input_exists = FALSE
    /\ paths = <<>>
    /\ cfg \in { c \in Configs : c.iiif_image_base = <<>> }
    /\ InitLocals
    /\ run = 1
    /\ net = EmptyMap
    /\ enc = EmptyMap
    /\ first = NoFirst
    /\ svc = SvcIdle
    /\ manifest_urls \in UrlLists
    /\ tk_pc = "main"
    /\ TkLocals

\* main, lines 257-258, and process_manifest, lines 142-147: the next URL
\* is taken and result initialised.
TkStart ==
    /\ tk_pc = "main"
    /\ tk_idx <= Len(manifest_urls)
    /\ result' = [NoResult EXCEPT !.manifest_url = manifest_urls[tk_idx]]
    /\ tk_manifest' = NoManifest
    /\ pages' = EmptyMap
    /\ images' = EmptyMap
    /\ upload' = NoUpload
    /\ tk_k' = 0
    /\ tk_pc' = "fetch"
    /\ UNCHANGED <<genVars, manifest_urls, tk_idx, tk_results>>

\* process_manifest, lines 151-155: fetch_manifest raises, or returns a
\* JSON value; extract_pages raises on a value without .get; no page is an
\* error.
TkFetchAs(raises, m) ==
    /\ tk_pc = "fetch"
    /\ IF raises
       THEN /\ result' = Failed(result, "RequestException")
            /\ tk_pc' = "return"
            /\ UNCHANGED <<tk_manifest, pages, tk_k>>
       ELSE /\ tk_manifest' = m
            /\ IF ~m.object
               THEN /\ result' = Failed(result, "AttributeError")
                    /\ tk_pc' = "return"
                    /\ UNCHANGED <<pages, tk_k>>
               ELSE /\ pages' = extract_pages(m.items)
                    /\ IF pages' = EmptyMap
                       THEN /\ result' = Failed(result, "No pages found in manifest")
                            /\ tk_pc' = "return"
                            /\ UNCHANGED tk_k
                       ELSE /\ tk_pc' = "download"
                            /\ tk_k' = 1
                            /\ UNCHANGED result
    /\ UNCHANGED <<genVars, manifest_urls, tk_idx, tk_results, images, upload>>

TkFetch == \E raises \in BOOLEAN, m \in Manifests : TkFetchAs(raises, m)

\* download_images, lines 99-115, one iteration over sorted(pages.items()),
\* and process_manifest, lines 159-176, after the last one.
TkDownloadAs(ok) ==
    /\ tk_pc = "download"
    /\ LET labels == SortedKeys(DOMAIN pages)
           label == labels[tk_k]
       IN  /\ images' = IF ok THEN Put(images, FileName(label), ImageUrl(pages[label]))
                               ELSE images
           /\ IF tk_k < Len(labels)
              THEN /\ tk_k' = tk_k + 1
                   /\ UNCHANGED <<tk_pc, result>>
              ELSE IF images' = EmptyMap
              THEN /\ result' = Failed(result, "No images downloaded")
                   /\ tk_pc' = "return"
                   /\ UNCHANGED tk_k
              ELSE /\ result' = [result EXCEPT
                                    !.upload_obj = Some([pageList |-> pages_metadata(images')])]
                   /\ tk_pc' = "create"
                   /\ UNCHANGED tk_k
    /\ UNCHANGED <<genVars, manifest_urls, tk_idx, tk_results, tk_manifest, pages, upload>>

TkDownload == \E ok \in BOOLEAN : TkDownloadAs(ok)

\* process_manifest, lines 179-188: the POST raises; or the server creates
\* the upload and its answer has no uploadId; or it has one.
TkCreateAs(outcome) ==
    /\ tk_pc = "create"
    /\ upload' = IF outcome = "HTTPError" THEN upload
                 ELSE [created |-> TRUE, pageList |-> result.upload_obj[1].pageList,
                       files |-> <<>>]
    /\ IF outcome = "ok"
       THEN /\ tk_pc' = "upload"
            /\ tk_k' = 1
            /\ UNCHANGED result
       ELSE /\ result' = Failed(result, outcome)
            /\ tk_pc' = "return"
            /\ UNCHANGED tk_k
    /\ UNCHANGED <<genVars, manifest_urls, tk_idx, tk_results, tk_manifest, pages, images>>

TkCreate == \E outcome \in {"ok", "HTTPError", "IndexError"} : TkCreateAs(outcome)

\* process_manifest, lines 191-196, and upload_file: one iteration over
\* sorted(images.keys()); upload_file raises what the PUT raised.
TkUploadAs(ok) ==
    /\ tk_pc = "upload"
    /\ LET names == SortedKeys(DOMAIN images)
       IN  IF ok
           THEN /\ upload' = [upload EXCEPT !.files = Append(@, names[tk_k])]
                /\ IF tk_k < Len(names)
                   THEN /\ tk_k' = tk_k + 1
                        /\ UNCHANGED <<tk_pc, result>>
                   ELSE /\ result' = [result EXCEPT !.status = "FINISHED"]
                        /\ tk_pc' = "return"
                        /\ UNCHANGED tk_k
           ELSE /\ result' = Failed(result, "HTTPError")
                /\ tk_pc' = "return"
                /\ UNCHANGED <<upload, tk_k>>
    /\ UNCHANGED <<genVars, manifest_urls, tk_idx, tk_results, tk_manifest, pages, images>>

TkUpload == \E ok \in BOOLEAN : TkUploadAs(ok)

\* process_manifest, line 203, and main, lines 258-259.
TkReturn ==
    /\ tk_pc = "return"
    /\ tk_results' = Append(tk_results, result)
    /\ tk_idx' = tk_idx + 1
    /\ tk_pc' = "main"
    /\ UNCHANGED <<genVars, manifest_urls, result, tk_manifest, pages, images, tk_k, upload>>

\* main, lines 261-274: the loop is over, the summary is logged.
TkSummary ==
    /\ tk_pc = "main"
    /\ tk_idx > Len(manifest_urls)
    /\ tk_pc' = "done"
    /\ UNCHANGED <<genVars, manifest_urls, tk_idx, tk_results, result, tk_manifest,
                   pages, images, tk_k, upload>>

NextTranskribus ==
    \/ TkStart
    \/ TkFetch
    \/ TkDownload
    \/ TkCreate
    \/ TkUpload
    \/ TkReturn
    \/ TkSummary

SpecTranskribus == InitTranskribus /\ [][NextTranskribus]_vars

----------------------------------------------------------------------------
(* Vocabulary of the properties.                                           *)

\* The k-th item of the document got a service id.
Resolved(k) ==
    build_service_id(cfg.iiif_image_base, cfg.project_segment, items[k]) # NoBase

\* The job submitted for the k-th item: jobs are submitted in item order.
JobIndex(k) == Cardinality({ m \in 1..k : Resolved(m) })

\* What the k-th item's own request returned.
OwnInfo(k) == jobs[JobIndex(k)].info

\* info is the marker that the except branch of fetch_info_json returns.
FetchFailed(info) == info.info_url # <<>>

ManifestProduced == pc = "write" /\ ret.manifest_json # None

CanvasPaths(cs) == [k \in 1..Len(cs) |-> cs[k].path]

CountIn(seq, x) == Cardinality({ k \in 1..Len(seq) : seq[k] = x })

\* The items 1..k that were resolved and fetched successfully, in item order.
RECURSIVE SurvivingPaths(_)
SurvivingPaths(k) ==
    IF k = 0 THEN <<>>
    ELSE SurvivingPaths(k - 1) \o
         (IF Resolved(k) /\ ~FetchFailed(OwnInfo(k)) THEN <<items[k]>> ELSE <<>>)

\* C1: the canvases of a produced manifest are, in order, the sorted member
\* paths that were resolved and fetched successfully, whatever the order in
\* which the fetches completed.
C1_CanvasOrderIsSortedSurvivors ==
    ManifestProduced =>
        CanvasPaths(ret.manifest_json[1].items) = SurvivingPaths(Len(items))

\* C2: the canvas indices of a produced manifest are exactly 1..N, without
\* gap or repetition, N being the returned created count.
C2_IndicesContiguous ==
    ManifestProduced =>
        LET cs == ret.manifest_json[1].items
        IN  /\ Len(cs) = ret.created_count
            /\ \A k \in 1..Len(cs) : cs[k].index = k

\* C3: whatever a fetch produces, no exception escapes make_manifest_for_doc,
\* and an item whose body is not a capability object ends as a failure record.
C3_NoExceptionEscapes ==
    /\ exit_status # 1
    /\ pc = "dumps" =>
         \A k \in 1..Len(items) :
            (Resolved(k) /\ OwnInfo(k).json # "object") =>
                \E n \in 1..Len(failures) : failures[n][1] = items[k]

\* C4: per path, the items whose fetch failed have one fetch failure record
\* each and no canvas, and only they have a fetch failure record.
C4_FailedFetchIsFailure ==
    pc = "dumps" =>
        \A p \in { items[k] : k \in 1..Len(items) } :
            LET failed == { k \in 1..Len(items) :
                              items[k] = p /\ Resolved(k) /\ FetchFailed(OwnInfo(k)) }
                fetched == { k \in 1..Len(items) :
                              items[k] = p /\ Resolved(k) /\ ~FetchFailed(OwnInfo(k)) }
            IN  /\ CountIn(failures, <<p, "info.json fetch failed">>) = Cardinality(failed)
                /\ CountIn(CanvasPaths(manifest), p) <= Cardinality(fetched)

\* The results and the canvases when the fetches arrive in submission order.
RECURSIVE InOrderResults(_)
InOrderResults(j) ==
    IF j = 0 THEN EmptyMap
    ELSE StoreResult(InOrderResults(j - 1), jobs[j].p, jobs[j].info, jobs[j].service_id)

RECURSIVE InOrderBuild(_)
InOrderBuild(k) ==
    IF k = 0
    THEN [failures |-> <<>>, canvases_created |-> 0, manifest |-> <<>>, raised |-> FALSE]
    ELSE BuildStep(InOrderBuild(k - 1), items[k], InOrderResults(Len(jobs)))

\* C5: with the outcome of every single fetch fixed, the items that get a
\* canvas and the index of each are those of the in-order arrival, under
\* every arrival order, duplicated paths included.
C5_ArrivalOrderIrrelevant ==
    pc = "dumps" => manifest = InOrderBuild(Len(items)).manifest

\* The document key in the words of the grouping contract.
KeyOf(p) ==
    LET segs == Split(p)
    IN  IF Len(segs) >= 2 THEN segs[Len(segs) - 1] ELSE RootDoc

\* The paths among the first n input lines whose key is d, in input order.
RECURSIVE MembersOf(_, _)
MembersOf(d, n) ==
    IF n = 0 THEN <<>>
    ELSE MembersOf(d, n - 1) \o (IF KeyOf(paths[n]) = d THEN <<paths[n]>> ELSE <<>>)

\* The grouping loop of main run over a whole list.
RECURSIVE GroupAll(_)
GroupAll(seq) ==
    IF seq = <<>> THEN EmptyMap
    ELSE LET p == seq[Len(seq)]
         IN  GroupAppend(GroupAll(SubSeq(seq, 1, Len(seq) - 1)),
                         doc_and_filename_from_path(p)[1], p)

\* A list as a multiset.
BagOf(seq) == [x \in { seq[k] : k \in 1..Len(seq) } |-> CountIn(seq, x)]

\* C6: grouping partitions the input by the second-to-last segment ("root"
\* for a single segment), and the document to member multiset mapping is the
\* same for every permutation of the input.
C6_GroupingPartitions ==
    pc = "group" =>
        /\ DOMAIN grouped = { KeyOf(paths[k]) : k \in 1..(idx - 1) }
        /\ \A d \in DOMAIN grouped : grouped[d] = MembersOf(d, idx - 1)
        /\ idx > Len(paths) =>
             \A q \in Permutations(1..Len(paths)) :
                LET g == GroupAll([k \in 1..Len(paths) |-> paths[q[k]]])
                IN  /\ DOMAIN g = DOMAIN grouped
                    /\ \A d \in DOMAIN g : BagOf(g[d]) = BagOf(grouped[d])

\* Two different paths of one document with a root path between them.
C6_Witness ==
    /\ pc = "group"
    /\ idx > Len(paths)
    /\ Len(paths) = 3
    /\ Len(Split(paths[2])) = 1
    /\ paths[1] # paths[3]
    /\ \E d \in DOMAIN grouped : grouped[d] = <<paths[1], paths[3]>>
    /\ grouped[RootDoc] = <<paths[2]>>

\* The text after the first n tokens of s.
Rest(s, n) == SubSeq(s, n + 1, Len(s))

\* C7: for a URL-form path build_service_id returns the path less a trailing
\* "/info.json", removed once, and trailing slashes: the result is a prefix
\* of the path and what is cut off holds "info.json" at most once and
\* otherwise separators only.
C7_UrlSuffixStrippedOnce ==
    (svc.out # NoOut /\ IsUrl(svc.path)) =>
        /\ StartsWith(svc.path, svc.out)
        /\ LET cut == Rest(svc.path, Len(svc.out))
           IN  /\ CountIn(cut, "info.json") <= 1
               /\ \A k \in 1..Len(cut) : cut[k] \in {"/", "info.json"}

JobPaths == [j \in 1..Len(jobs) |-> jobs[j].p]

DocsOf(seq) == [k \in 1..Len(seq) |-> seq[k][1]]

\* Without a base URL: every non-URL member has one resolution failure
\* naming it per occurrence, no job, no result and no canvas; every URL-form
\* member has its job, and its canvases when its capability document is good;
\* the run does not end at a non-URL member.
NoBaseMembers ==
    /\ pc \in {"collect", "build", "dumps", "write"} =>
         \A p \in { items[k] : k \in 1..Len(items) } :
            IF IsUrl(p)
            THEN CountIn(JobPaths, p) = CountIn(items, p)
            ELSE /\ CountIn(failures, <<p, "service id build failed">>) = CountIn(items, p)
                 /\ CountIn(JobPaths, p) = 0
                 /\ p \notin DOMAIN results
                 /\ CountIn(CanvasPaths(manifest), p) = 0
    /\ pc = "dumps" =>
         \A p \in DOMAIN results :
            results[p][1] = OkBody =>
                /\ CountIn(CanvasPaths(manifest), p) = CountIn(items, p)
                /\ \A n \in 1..Len(manifest) : manifest[n].complete
    /\ exit_status = 1 => IsUrl(items[idx - 1])

\* Once the documents are lined up, each of them is either still to do or
\* reported, in the same order.
DocsKept ==
    pc \notin {"start", "group"} =>
        DocsOf(report_lines') \o DocsOf(todo') = DocsOf(report_lines) \o DocsOf(todo)

\* C8: with an empty base URL every non-URL member fails resolution with one
\* failure record naming it, without fetch or canvas, while URL-form members
\* of the document are fetched and built and later documents are processed.
C8_EmptyBaseFailsPerItem ==
    /\ [](cfg.iiif_image_base = <<>> => NoBaseMembers)
    /\ [][DocsKept]_vars

\* The root document is reached after document A, whose non-URL member
\* failed resolution and whose URL-form member got its canvas.
C8_Witness ==
    /\ cfg.iiif_image_base = <<>>
    /\ pc = "write"
    /\ doc = RootDoc
    /\ failures = << <<<<"a">>, "service id build failed">> >>
    /\ <<"A">> \in DOMAIN files
    /\ CanvasPaths(files[<<"A">>].items) = << <<"http:", "/", "/", "A", "/", "b">> >>
    /\ total_failures = << <<<<"A">>, <<"A", "/", "a">>, "service id build failed">> >>

\* C9: a second run on the same input, configuration and responses leaves
\* the same files, created counts, failures, report and exit status as the
\* first, however the fetches interleave.
C9_SecondRunSameOutput ==
    (run = 2 /\ pc \in {"done", "exited"}) => Outputs = first.out

\* Both runs fetched two different URLs for one document and reported a failure.
C9_Witness ==
    /\ run = 2
    /\ pc = "done"
    /\ Cardinality(DOMAIN net) >= 2
    /\ \E d \in DOMAIN files : Len(files[d].items) >= 2
    /\ total_failures # <<>>
    /\ Outputs = first.out

SerializationFailed == pc = "write" /\ ret.manifest_json = None

DumpsRecord == <<<<"manifest_dumps">>, "json_dumps failed">>

Tagged(d, fails) == [k \in 1..Len(fails) |-> <<d, fails[k][1], fails[k][2]>>]

\* C10: when json_dumps fails, the returned failures are the per-item ones
\* followed by one document-level record, the returned count is the number
\* of canvases built, no file is written, the document is not listed as
\* created, and the next document is taken.
C10_SerializationFailure ==
    /\ [](SerializationFailed =>
            /\ ret.failures = failures \o <<DumpsRecord>>
            /\ ret.created_count = Cardinality({ n \in 1..Len(manifest) : manifest[n].complete })
            /\ doc \notin DOMAIN files)
    /\ [][SerializationFailed =>
            /\ files' = files
            /\ created_manifests' = created_manifests
            /\ total_failures' = total_failures \o Tagged(doc, failures) \o
                    << <<doc, DumpsRecord[1], DumpsRecord[2]>> >>
            /\ todo' = Tail(todo)
            /\ pc' = "next_doc"]_vars

\* Document A failed to serialise after one canvas and one per-item failure,
\* and the root document is being written.
C10_Witness ==
    /\ pc = "write"
    /\ doc = RootDoc
    /\ report_lines = << <<<<"A">>, "FAILED">> >>
    /\ files = EmptyMap
    /\ Len(total_failures) = 2
    /\ total_failures[1][3] = "info.json fetch failed"
    /\ total_failures[2] = <<<<"A">>, DumpsRecord[1], DumpsRecord[2]>>

\* C11: a run without input file ends with a non-zero status before any
\* document is entered or any file written; every other run ends with
\* status zero only, after all documents, with the report written once.
C11_ExitStatus ==
    /\ ~input_exists =>
         /\ exit_status \in {-1, 2}
         /\ doc = NoDoc /\ files = EmptyMap /\ report = <<>>
    /\ input_exists => exit_status \in {-1, 0}
    /\ exit_status = 0 => (pc = "done" /\ todo = <<>> /\ Len(report) = 1)

\* C12: a path whose canvas construction raised leaves no canvas in
\* manifest.items, the manifest holds as many canvases as were counted, and
\* no two canvases carry the same index.
C12_AbandonedCanvasLeavesNoTrace ==
    pc \in {"build", "dumps", "write"} =>
        /\ \A n \in 1..Len(failures) :
              failures[n][2] = "manifest/canvas creation error" =>
                  CountIn(CanvasPaths(manifest), failures[n][1]) = 0
        /\ Len(manifest) = canvases_created
        /\ \A m, n \in 1..Len(manifest) : manifest[m].index = manifest[n].index => m = n

\* A step of job j allowed by the executor: queued, running, done, collected.
JobAdvances(j) ==
    <<jobs[j].state, jobs'[j].state>> \in
        {<<"queued", "running">>, <<"running", "done">>, <<"done", "collected">>}

\* C13: within a document nothing is built and no index is given out before
\* every submitted fetch has been collected into results; manifest and
\* counter change in the build loop only, never in a worker's step; and a
\* job is never cancelled: whatever a sibling's fetch did, each job only
\* moves forward, one at a time, until it is collected.
C13_BuildAfterAllCollected ==
    /\ [](/\ pc \in {"submit", "collect"} => (manifest = <<>> /\ canvases_created = 0)
          /\ (manifest # <<>> \/ canvases_created > 0 \/ pc \in {"build", "dumps", "write"}) =>
                \A j \in 1..Len(jobs) :
                    jobs[j].state = "collected" /\ jobs[j].p \in DOMAIN results)
    /\ [][/\ (manifest' # manifest \/ canvases_created' # canvases_created) =>
                \/ pc = "build"
                \/ pc = "next_doc" /\ manifest' = <<>> /\ canvases_created' = 0
          /\ (pc' \in {"submit", "collect"} /\ pc \in {"submit", "collect"}) =>
                /\ Len(jobs') >= Len(jobs)
                /\ \A j \in 1..Len(jobs) :
                      jobs'[j].state # jobs[j].state =>
                          /\ JobAdvances(j)
                          /\ \A m \in 1..Len(jobs) : m # j => jobs'[m] = jobs[m]]_vars

\* A failed fetch and a successful one of the same document have both been
\* collected, and the build loop has made a canvas.
C13_Witness ==
    /\ pc = "build"
    /\ canvases_created >= 1
    /\ \E j, k \in 1..Len(jobs) :
          /\ FetchFailed(jobs[j].info)
          /\ ~FetchFailed(jobs[k].info)
          /\ jobs[j].state = "collected" /\ jobs[k].state = "collected"

\* The document keys of a sequence of records, in order.
KeysOf(seq) == [k \in 1..Len(seq) |-> seq[k][1]]

StrictlyAscending(seq) ==
    \A m, n \in 1..Len(seq) : m < n => StrLess(seq[m], seq[n])

Ascending(seq) ==
    \A m, n \in 1..Len(seq) : m < n => StrLeq(seq[m], seq[n])

\* A fetch that was submitted and is not collected yet.
InFlight == InState("queued") \cup InState("running") \cup InState("done")

\* C14: the documents are taken one after another in sorted key order: the
\* documents reported so far followed by those still to do are strictly
\* ascending; a fetch is in flight only for the current document, which is
\* not reported yet, and none is when the next document is about to be
\* entered; the created entries and the failure records of the report are in
\* ascending key order.
C14_DocumentsInSortedOrder ==
    /\ StrictlyAscending(KeysOf(report_lines) \o KeysOf(todo))
    /\ InFlight # {} =>
          /\ pc \in {"submit", "collect"}
          /\ todo # <<>> /\ Head(todo)[1] = doc
          /\ \A j \in 1..Len(jobs) : CountIn(items, jobs[j].p) > 0
          /\ CountIn(KeysOf(report_lines), doc) = 0
    /\ (pc = "next_doc" /\ doc # NoDoc) =>
          /\ InFlight = {}
          /\ report_lines[Len(report_lines)][1] = doc
    /\ StrictlyAscending(KeysOf(created_manifests))
    /\ Ascending(KeysOf(total_failures))
    /\ pc = "done" =>
          /\ StrictlyAscending(KeysOf(report[1].created))
          /\ Ascending(KeysOf(report[1].failures))

\* Two documents were written one after the other, both with failures, and
\* the report lists them.
C14_Witness ==
    /\ pc = "done"
    /\ Len(report[1].created) = 2
    /\ \E m, n \in 1..Len(report[1].failures) :
          report[1].failures[m][1] # report[1].failures[n][1]

\* The items 1..k that get a service id, each with it, in item order.
RECURSIVE ResolvedItems(_)
ResolvedItems(k) ==
    IF k = 0 THEN <<>>
    ELSE LET service_id ==
                 build_service_id(cfg.iiif_image_base, cfg.project_segment, items[k])
         IN  ResolvedItems(k - 1) \o
             (IF service_id = NoBase THEN <<>> ELSE << <<items[k], service_id>> >>)

\* C15: each submitted call makes its GET once: a job has made no request
\* while it is queued and exactly one from then on; once the submit loop is
\* over the jobs are, one for one, the items that were resolved, each for
\* its service id, so there is no job for an item whose resolution failed.
C15_OneRequestPerResolvedItem ==
    /\ \A j \in 1..Len(jobs) :
          jobs[j].gets = (IF jobs[j].state = "queued" THEN 0 ELSE 1)
    /\ pc \in {"collect", "build", "dumps", "write"} =>
          [j \in 1..Len(jobs) |-> <<jobs[j].p, jobs[j].service_id>>]
              = ResolvedItems(Len(items))
    /\ pc \in {"build", "dumps", "write"} =>
          \A j \in 1..Len(jobs) : jobs[j].gets = 1

\* A document with a resolved item whose request failed and an item whose
\* resolution failed has been collected.
C15_Witness ==
    /\ pc = "build"
    /\ \E k \in 1..Len(items) : ~Resolved(k)
    /\ \E j \in 1..Len(jobs) : FetchFailed(jobs[j].info) /\ jobs[j].gets = 1

\* min(MAX_WORKERS, max(2, n)), case by case.
WorkerBound(n) == IF n < 2 THEN 2 ELSE IF n > MAX_WORKERS THEN MAX_WORKERS ELSE n

\* C16: while a document with n items is fetched, the pool has
\* min(MAX_WORKERS, max(2, n)) workers, between 2 and MAX_WORKERS, no more
\* fetches than that are running at the same time, and every queued fetch
\* is started in the end: a fetch that a worker has taken is never queued
\* again, and whenever fetches are queued the queue runs empty.
C16_BoundedPoolRunsEveryFetch ==
    /\ [](pc \in {"submit", "collect"} =>
            /\ WorkerBound(Len(items)) \in 2..MAX_WORKERS
            /\ Cardinality(InState("running")) <= WorkerBound(Len(items)))
    /\ [][pc' \in {"submit", "collect"} =>
            \A j \in 1..Len(jobs) :
                jobs[j].state # "queued" => jobs'[j].state # "queued"]_vars
    /\ (InState("queued") # {}) ~> (InState("queued") = {})

\* Every worker of the pool is busy and a fetch waits in the queue.
C16_Witness ==
    /\ pc \in {"submit", "collect"}
    /\ Len(items) > MAX_WORKERS
    /\ Cardinality(InState("running")) = MAX_WORKERS
    /\ InState("queued") # {}

\* The per-item failure records of a return value: all but manifest_dumps.
ItemFailures(fs) == SelectSeq(fs, LAMBDA f : f[1] # <<"manifest_dumps">>)

\* C17: when make_manifest_for_doc has returned, the document's items are
\* as many as the created count plus the per-item failure records, and a
\* path that is an item m times has m per-item failure records or none.
C17_EveryItemAccountedOnce ==
    pc = "write" =>
        /\ Len(items) = ret.created_count + Len(ItemFailures(ret.failures))
        /\ \A p \in { items[k] : k \in 1..Len(items) } :
              CountIn(KeysOf(ItemFailures(ret.failures)), p) \in {0, CountIn(items, p)}
        /\ \A n \in 1..Len(ret.failures) :
              ret.failures[n][1] # <<"manifest_dumps">> => CountIn(items, ret.failures[n][1]) > 0

\* A document of three items, one of them twice, has returned with a
\* canvas and with per-item failure records.
C17_Witness ==
    /\ pc = "write"
    /\ Len(items) = 3
    /\ \E p \in { items[k] : k \in 1..Len(items) } : CountIn(items, p) = 2
    /\ ret.created_count >= 1
    /\ Len(ItemFailures(ret.failures)) >= 1

\* process_manifest has a result to return.
Returning == tk_pc = "return"

ManifestPages == SelectSeq(tk_manifest.items, LAMBDA item : item.label # None)

\* C19: the page list of the upload is exactly the downloaded images,
\* numbered 1..n in sorted file-name order, the files are uploaded in that
\* order, and a FINISHED document has a page for every page of its manifest.
C19_PageListIsWholeManifest ==
    result.upload_obj # None =>
        LET pageList == result.upload_obj[1].pageList
        IN  /\ { pageList[k].fileName : k \in 1..Len(pageList) } = DOMAIN images
            /\ Len(pageList) = Cardinality(DOMAIN images)
            /\ \A k \in 1..Len(pageList) : pageList[k].pageNr = k
            /\ \A m, n \in 1..Len(pageList) :
                  m < n => StrLess(pageList[m].fileName, pageList[n].fileName)
            /\ upload.files = [k \in 1..Len(upload.files) |-> pageList[k].fileName]
            /\ result.status = "FINISHED" =>
                  /\ Len(upload.files) = Len(pageList)
                  /\ Len(pageList) = Len(ManifestPages)

====
